---- MODULE Spec2Model ----
(***************************************************************************)
(* Model of the Enum Editor plugin (src/src/lib.rs): the instance registry *)
(* kept by EnumEditorPlugin (the `editors` map and the `next_editor_id`    *)
(* counter, each behind its own Mutex), the factory create_editor, the     *)
(* lifecycle hooks on_load and on_unload and the EnumEditorWrapper         *)
(* instance handle.                                                        *)
(*                                                                         *)
(* create_editor takes &self, so several threads may be inside it at once; *)
(* each statement that touches shared state is one step of the calling     *)
(* thread.  on_load and on_unload take &mut self, so they run only while   *)
(* no other call on the plugin is in progress.                             *)
(*                                                                         *)
(* Specifications: Spec (the plugin with save and reload on the handles),  *)
(* SpecHandles (every handle method), SpecEdit (with the user editing),    *)
(* SpecOwn (with the host dropping its handles) and FairSpec (the plugin's *)
(* own operations under fair scheduling of the threads).                   *)
(***************************************************************************)
EXTENDS Integers, Sequences, FiniteSets, TLC

\* ------------------------------------------------------------------ bounds
NumThreads == 2
MaxIds == 2
MaxUnloads == 2
MaxLoads == 1

Threads == 1..NumThreads

\* ------------------------------------------------------- inputs and values
\* Paths are sequences of components.
ColorsDir == <<"Colors.enum">>
ColorsMarker == <<"Colors.enum", "enum.json">>
MissingPath == <<"Gone.enum", "enum.json">>

Paths == {ColorsDir, MissingPath}
EditorKinds == {"enum-editor", "bogus-editor"}

\* The file system the calls run against: one folder-based document with its
\* marker file; every other path (and its parent folder) does not exist.
FS(p) ==
    IF p = ColorsDir THEN "dir"
    ELSE IF p = ColorsMarker THEN "file"
    ELSE "none"

NoThread == 0
NoPath == << >>
NoEntity == 0
NoId == -1
NoWrapper == [panel |-> NoEntity, file_path |-> NoPath]
NoResult == [op |-> "none", tag |-> "none"]

\* ----------------------------------------------------------- pure helpers
\* Path::is_dir
is_dir(p) == FS(p) = "dir"

\* PathBuf::join with a relative component
join(p, name) == Append(p, name)

\* lines 106-110: the path the entity is constructed with
actual_path_of(p) == IF is_dir(p) THEN join(p, "enum.json") ELSE p

\* line 105: the editor kind this plugin provides
IsEnumEditorAny(kind) == TRUE
IsEnumEditor(kind) == kind = "enum-editor"

\* Whether the document at a resolved path can be read (marker file present).
Readable(p) == FS(p) = "file"

\* Whether a document can be written at a path: it is not a directory and
\* the directory that holds it exists.
Writable(p) ==
    /\ Len(p) > 0
    /\ FS(p) # "dir"
    /\ (Len(p) = 1 \/ FS(SubSeq(p, 1, Len(p) - 1)) = "dir")

\* EnumEditor::new_with_file: cx.new always yields an entity and the first
\* handle to it; the entity remembers the path it was built from.  `strong`
\* counts the Entity handles to it, `arc_strong` the clones of the
\* Arc<dyn PanelView> that wraps one of those handles.
new_with_file(p) ==
    [path |-> p, loaded |-> Readable(p), dirty |-> FALSE,
     strong |-> 1, arc_strong |-> 0]

\* Entity::clone / drop of an Entity handle
CloneEntity(ent) == [ent EXCEPT !.strong = @ + 1]
DropEntity(ent) == [ent EXCEPT !.strong = @ - 1]

\* line 113: Arc::new(panel.clone()); Arc::clone; drop of one Arc clone, the
\* last of which drops the Entity handle inside
NewArc(ent) == [CloneEntity(ent) EXCEPT !.arc_strong = 1]
CloneArc(ent) == [ent EXCEPT !.arc_strong = @ + 1]
DropArcExclusive(ent) == [DropEntity(ent) EXCEPT !.arc_strong = @ - 1]
DropArc(ent) ==
    IF ent.arc_strong = 1
    THEN [DropEntity(ent) EXCEPT !.arc_strong = 0]
    ELSE [ent EXCEPT !.arc_strong = @ - 1]

\* an entity lives until its last handle is dropped
Alive(ent) == ent.strong > 0

\* lines 114-117: the wrapper built by create_editor
EnumEditorWrapper(e, p) == [panel |-> e, file_path |-> p]

\* lines 126-129: the record stored in the map
EditorStorage(panel_arc, w) == [panel |-> panel_arc, wrapper |-> w]

\* lines 121-122: the counter after one allocation
IncrementIdSkipped(n) == n
IncrementId(n) == n + 1

\* HashMap::new / HashMap::insert / HashMap::len / HashMap::clear
EmptyMap == [i \in {} |-> NoWrapper]
InsertAtZero(m, k, v) == [i \in DOMAIN m \cup {0} |-> IF i = 0 THEN v ELSE m[i]]
InsertDedupByPath(m, k, v) ==
    IF \E i \in DOMAIN m : m[i].wrapper.file_path = v.wrapper.file_path
    THEN m
    ELSE [i \in DOMAIN m \cup {k} |-> IF i = k THEN v ELSE m[i]]
Insert(m, k, v) == [i \in DOMAIN m \cup {k} |-> IF i = k THEN v ELSE m[i]]
len(m) == Cardinality(DOMAIN m)
ClearKeepsOne(m) ==
    IF DOMAIN m = {} THEN m
    ELSE LET k == CHOOSE i \in DOMAIN m : TRUE IN [i \in {k} |-> m[i]]
Clear(m) == EmptyMap

\* line 144: the count on_unload reports, taken before the clear
UnloadCountAfterClear(m) == len(Clear(m))
UnloadCount(m) == len(m)

\* results handed back to the caller
Ok(p, w) == [op |-> "create_editor", tag |-> "Ok", panel |-> p, wrapper |-> w]
EditorNotFound(kind) ==
    [op |-> "create_editor", tag |-> "EditorNotFound", editor_id |-> kind]
Unloaded == [op |-> "on_unload", tag |-> "Ok"]
Loaded == [op |-> "on_load", tag |-> "Ok"]

\* log::info! lines
CreatedLine(i, p) == [msg |-> "created", id |-> i, file_path |-> p]
UnloadedLine(c) == [msg |-> "unloaded", count |-> c]
LoadedLine == [msg |-> "loaded"]

\* ------------------------------------------------------------------ state
VARIABLES
    editors,          \* EnumEditorPlugin.editors: id -> EditorStorage
    next_editor_id,   \* EnumEditorPlugin.next_editor_id
    counter_lock,     \* holder of the next_editor_id mutex, or NoThread
    map_lock,         \* holder of the editors mutex, or NoThread
    entities,         \* entities created through cx.new, by entity id
    pc,               \* position of each thread
    editor_id,        \* create_editor argument
    file_path,        \* create_editor argument
    actual_path,      \* create_editor local
    panel,            \* create_editor local (entity id)
    wrapper,          \* create_editor local
    id,               \* create_editor local
    result,           \* the value most recently returned to a caller
    handles,          \* instance handles the host holds
    panels,           \* display handles the host holds (entity ids)
    logger,           \* messages sent through the EditorLogger
    log               \* log::info! output, in order

vars == <<editors, next_editor_id, counter_lock, map_lock, entities, pc,
          editor_id, file_path, actual_path, panel, wrapper, id, result,
          handles, panels, logger, log>>

locals == <<editor_id, file_path, actual_path, panel, wrapper, id>>
registry == <<editors, next_editor_id>>
locks == <<counter_lock, map_lock>>
host == <<handles, panels>>

\* ------------------------------------------------------------------- Init
\* lines 47-54: EnumEditorPlugin::default
Init ==
    /\ editors = EmptyMap
    /\ next_editor_id = 0
    /\ counter_lock = NoThread
    /\ map_lock = NoThread
    /\ entities = << >>
    /\ pc = [t \in Threads |-> "idle"]
    /\ editor_id = [t \in Threads |-> ""]
    /\ file_path = [t \in Threads |-> NoPath]
    /\ actual_path = [t \in Threads |-> NoPath]
    /\ panel = [t \in Threads |-> NoEntity]
    /\ wrapper = [t \in Threads |-> NoWrapper]
    /\ id = [t \in Threads |-> NoId]
    /\ result = NoResult
    /\ handles = {}
    /\ panels = {}
    /\ logger = {}
    /\ log = << >>

\* ---------------------------------------------------------- create_editor
BeforeAlloc == {"check_kind", "resolve", "construct", "lock_counter", "alloc"}
InUnload == {"unload_lock", "unload_clear"}

PendingAllocs == Cardinality({u \in Threads : pc[u] \in BeforeAlloc})
Unloads == Cardinality({i \in 1..Len(log) : log[i].msg = "unloaded"})
Loads == Cardinality({i \in 1..Len(log) : log[i].msg = "loaded"})

ClearLocals(t) ==
    /\ editor_id' = [editor_id EXCEPT ![t] = ""]
    /\ file_path' = [file_path EXCEPT ![t] = NoPath]
    /\ actual_path' = [actual_path EXCEPT ![t] = NoPath]
    /\ panel' = [panel EXCEPT ![t] = NoEntity]
    /\ wrapper' = [wrapper EXCEPT ![t] = NoWrapper]
    /\ id' = [id EXCEPT ![t] = NoId]

\* lines 96-104: entry, with the arguments bound and the logger line written
create_editor_call(t, kind, path) ==
    /\ pc[t] = "idle"
    /\ \A u \in Threads : pc[u] \notin InUnload
    /\ next_editor_id + PendingAllocs < MaxIds
    /\ editor_id' = [editor_id EXCEPT ![t] = kind]
    /\ file_path' = [file_path EXCEPT ![t] = path]
    /\ logger' = logger \cup {"ENUM EDITOR LOADED!!"}
    /\ pc' = [pc EXCEPT ![t] = "check_kind"]
    /\ UNCHANGED <<registry, locks, entities, actual_path, panel, wrapper, id,
                   result, host, log>>

\* line 105, and lines 133-135 for the else branch
check_kind(t) ==
    /\ pc[t] = "check_kind"
    /\ IF IsEnumEditor(editor_id[t])
       THEN /\ pc' = [pc EXCEPT ![t] = "resolve"]
            /\ UNCHANGED <<locals, result>>
       ELSE /\ result' = EditorNotFound(editor_id[t])
            /\ pc' = [pc EXCEPT ![t] = "idle"]
            /\ ClearLocals(t)
    /\ UNCHANGED <<registry, locks, entities, host, logger, log>>

\* lines 106-110
resolve_path(t) ==
    /\ pc[t] = "resolve"
    /\ actual_path' = [actual_path EXCEPT ![t] = actual_path_of(file_path[t])]
    /\ pc' = [pc EXCEPT ![t] = "construct"]
    /\ UNCHANGED <<registry, locks, entities, editor_id, file_path, panel,
                   wrapper, id, result, host, logger, log>>

\* lines 112-117: the entity, its display handle and the wrapper
construct(t) ==
    /\ pc[t] = "construct"
    /\ entities' = Append(entities, NewArc(new_with_file(actual_path[t])))
    /\ panel' = [panel EXCEPT ![t] = Len(entities) + 1]
    /\ wrapper' = [wrapper EXCEPT
                     ![t] = EnumEditorWrapper(Len(entities) + 1, file_path[t])]
    /\ pc' = [pc EXCEPT ![t] = "lock_counter"]
    /\ UNCHANGED <<registry, locks, editor_id, file_path, actual_path, id,
                   result, host, logger, log>>

\* line 120: self.next_editor_id.lock()
lock_counter(t) ==
    /\ pc[t] = "lock_counter"
    /\ counter_lock = NoThread
    /\ counter_lock' = t
    /\ pc' = [pc EXCEPT ![t] = "alloc"]
    /\ UNCHANGED <<registry, map_lock, entities, locals, result, host,
                   logger, log>>

\* lines 121-124: read, increment, and the guard dropped at the block's end
alloc_id_keeps_lock(t) ==
    /\ pc[t] = "alloc"
    /\ counter_lock = t
    /\ id' = [id EXCEPT ![t] = next_editor_id]
    /\ next_editor_id' = IncrementId(next_editor_id)
    /\ pc' = [pc EXCEPT ![t] = "lock_map"]
    /\ UNCHANGED <<editors, locks, entities, editor_id, file_path,
                   actual_path, panel, wrapper, result, host, logger, log>>

alloc_id(t) ==
    /\ pc[t] = "alloc"
    /\ counter_lock = t
    /\ id' = [id EXCEPT ![t] = next_editor_id]
    /\ next_editor_id' = IncrementId(next_editor_id)
    /\ counter_lock' = NoThread
    /\ pc' = [pc EXCEPT ![t] = "lock_map"]
    /\ UNCHANGED <<editors, map_lock, entities, editor_id, file_path,
                   actual_path, panel, wrapper, result, host, logger, log>>

\* line 126: self.editors.lock()
lock_map(t) ==
    /\ pc[t] = "lock_map"
    /\ map_lock = NoThread
    /\ map_lock' = t
    /\ pc' = [pc EXCEPT ![t] = "insert"]
    /\ UNCHANGED <<registry, counter_lock, entities, locals, result, host,
                   logger, log>>

\* lines 126-129: insert, and the temporary guard dropped with the statement
insert_record_keeps_lock(t) ==
    /\ pc[t] = "insert"
    /\ map_lock = t
    /\ editors' = Insert(editors, id[t], EditorStorage(panel[t], wrapper[t]))
    /\ entities' = [entities EXCEPT ![panel[t]] = CloneEntity(CloneArc(@))]
    /\ pc' = [pc EXCEPT ![t] = "log"]
    /\ UNCHANGED <<next_editor_id, locks, locals, result, host, logger, log>>

insert_record(t) ==
    /\ pc[t] = "insert"
    /\ map_lock = t
    /\ editors' = Insert(editors, id[t], EditorStorage(panel[t], wrapper[t]))
    /\ entities' = [entities EXCEPT ![panel[t]] = CloneEntity(CloneArc(@))]
    /\ map_lock' = NoThread
    /\ pc' = [pc EXCEPT ![t] = "log"]
    /\ UNCHANGED <<next_editor_id, counter_lock, locals, result, host, logger,
                   log>>

\* lines 131-132
log_and_return(t) ==
    /\ pc[t] = "log"
    /\ log' = Append(log, CreatedLine(id[t], file_path[t]))
    /\ result' = Ok(panel[t], wrapper[t])
    /\ handles' = handles \cup {wrapper[t]}
    /\ panels' = panels \cup {panel[t]}
    /\ pc' = [pc EXCEPT ![t] = "idle"]
    /\ ClearLocals(t)
    /\ UNCHANGED <<registry, locks, entities, logger>>

\* ---------------------------------------------------------------- on_load
\* lines 138-140: &mut self, so no other call on the plugin is in progress;
\* the hook writes its log line and touches neither the map nor the counter
on_load ==
    /\ \A u \in Threads : pc[u] = "idle"
    /\ Loads < MaxLoads
    /\ log' = Append(log, LoadedLine)
    /\ result' = Loaded
    /\ UNCHANGED <<registry, locks, entities, pc, locals, host, logger>>

\* -------------------------------------------------------------- on_unload
\* line 142: &mut self, so no other call on the plugin is in progress
on_unload_call(t) ==
    /\ \A u \in Threads : pc[u] = "idle"
    /\ Unloads < MaxUnloads
    /\ pc' = [pc EXCEPT ![t] = "unload_lock"]
    /\ UNCHANGED <<registry, locks, entities, locals, result, host,
                   logger, log>>

\* line 143
on_unload_lock(t) ==
    /\ pc[t] = "unload_lock"
    /\ map_lock = NoThread
    /\ map_lock' = t
    /\ pc' = [pc EXCEPT ![t] = "unload_clear"]
    /\ UNCHANGED <<registry, counter_lock, entities, locals, result, host,
                   logger, log>>

\* line 145: every record dropped, that is its Arc clone and its wrapper
DropRecords(m, ents) ==
    [e \in DOMAIN ents |->
        IF \E k \in DOMAIN m : m[k].panel = e
        THEN DropEntity(DropArc(ents[e]))
        ELSE ents[e]]

\* lines 144-147: len, clear, the log line, and the guard dropped on return
on_unload_clear_resets(t) ==
    /\ pc[t] = "unload_clear"
    /\ map_lock = t
    /\ log' = Append(log, UnloadedLine(UnloadCount(editors)))
    /\ editors' = Clear(editors)
    /\ entities' = DropRecords(editors, entities)
    /\ next_editor_id' = 0
    /\ map_lock' = NoThread
    /\ result' = Unloaded
    /\ pc' = [pc EXCEPT ![t] = "idle"]
    /\ UNCHANGED <<counter_lock, locals, host, logger>>

on_unload_clear(t) ==
    /\ pc[t] = "unload_clear"
    /\ map_lock = t
    /\ log' = Append(log, UnloadedLine(UnloadCount(editors)))
    /\ editors' = Clear(editors)
    /\ entities' = DropRecords(editors, entities)
    /\ map_lock' = NoThread
    /\ result' = Unloaded
    /\ pc' = [pc EXCEPT ![t] = "idle"]
    /\ UNCHANGED <<next_editor_id, counter_lock, locals, host, logger>>

\* ------------------------------------------------------ EnumEditorWrapper
\* EnumEditor::plugin_save / plugin_reload: the entity's own persistence
plugin_save(e) == IF Writable(e.path) THEN "Ok" ELSE "SaveFailed"
plugin_reload(e) == IF Readable(e.path) THEN "Ok" ELSE "ReloadFailed"

\* the entity after a save or a reload: success leaves no unsaved changes,
\* failure leaves the entity as it was
after_save(e) == IF plugin_save(e) = "Ok" THEN [e EXCEPT !.dirty = FALSE] ELSE e
after_reload(e) ==
    IF plugin_reload(e) = "Ok"
    THEN [e EXCEPT !.dirty = FALSE, !.loaded = TRUE]
    ELSE e

\* lines 157-159
wrapper_file_path(w) == w.file_path

\* lines 161-165
wrapper_save_swallows(w) == "Ok"
wrapper_save(w) == plugin_save(entities[w.panel])

\* lines 167-171
wrapper_reload(w) == plugin_reload(entities[w.panel])

\* lines 173-175
is_dirty(w) == FALSE

OpResult(name, w, tag) == [op |-> name, tag |-> tag, panel |-> w.panel]
Value(name, v) == [op |-> name, value |-> v]

save_unregisters(t, w) ==
    /\ pc[t] = "idle"
    /\ w \in handles
    /\ result' = OpResult("save", w, wrapper_save(w))
    /\ entities' = [entities EXCEPT ![w.panel] = after_save(@)]
    /\ editors' = IF wrapper_save(w) = "Ok" THEN editors
                  ELSE [k \in {i \in DOMAIN editors : editors[i].wrapper # w}
                          |-> editors[k]]
    /\ UNCHANGED <<next_editor_id, locks, pc, locals, host, logger, log>>

save(t, w) ==
    /\ pc[t] = "idle"
    /\ w \in handles
    /\ result' = OpResult("save", w, wrapper_save(w))
    /\ entities' = [entities EXCEPT ![w.panel] = after_save(@)]
    /\ UNCHANGED <<registry, locks, pc, locals, host, logger, log>>

reload(t, w) ==
    /\ pc[t] = "idle"
    /\ w \in handles
    /\ result' = OpResult("reload", w, wrapper_reload(w))
    /\ entities' = [entities EXCEPT ![w.panel] = after_reload(@)]
    /\ UNCHANGED <<registry, locks, pc, locals, host, logger, log>>

file_path_call(t, w) ==
    /\ pc[t] = "idle"
    /\ w \in handles
    /\ result' = Value("file_path", wrapper_file_path(w))
    /\ UNCHANGED <<registry, locks, entities, pc, locals, host, logger, log>>

is_dirty_call(t, w) ==
    /\ pc[t] = "idle"
    /\ w \in handles
    /\ result' = Value("is_dirty", is_dirty(w))
    /\ UNCHANGED <<registry, locks, entities, pc, locals, host, logger, log>>

\* --------------------------------------------------------------- the host
\* the user changes the document through its panel
edit(e) ==
    /\ e \in panels
    /\ Alive(entities[e])
    /\ ~entities[e].dirty
    /\ entities' = [entities EXCEPT ![e].dirty = TRUE]
    /\ UNCHANGED <<registry, locks, pc, locals, result, host, logger, log>>

\* the host drops the display handle it was given
drop_panel(e) ==
    /\ e \in panels
    /\ panels' = panels \ {e}
    /\ entities' = [entities EXCEPT ![e] = DropArc(@)]
    /\ UNCHANGED <<registry, locks, pc, locals, result, handles, logger, log>>

\* the host drops the instance handle it was given
drop_instance(w) ==
    /\ w \in handles
    /\ handles' = handles \ {w}
    /\ entities' = [entities EXCEPT ![w.panel] = DropEntity(@)]
    /\ UNCHANGED <<registry, locks, pc, locals, result, panels, logger, log>>

\* ------------------------------------------------------------------- Next
Next ==
    \/ \E t \in Threads, kind \in EditorKinds, path \in Paths :
           create_editor_call(t, kind, path)
    \/ \E t \in Threads : check_kind(t)
    \/ \E t \in Threads : resolve_path(t)
    \/ \E t \in Threads : construct(t)
    \/ \E t \in Threads : lock_counter(t)
    \/ \E t \in Threads : alloc_id(t)
    \/ \E t \in Threads : lock_map(t)
    \/ \E t \in Threads : insert_record(t)
    \/ \E t \in Threads : log_and_return(t)
    \/ on_load
    \/ \E t \in Threads : on_unload_call(t)
    \/ \E t \in Threads : on_unload_lock(t)
    \/ \E t \in Threads : on_unload_clear(t)
    \/ \E t \in Threads, w \in handles : save(t, w)
    \/ \E t \in Threads, w \in handles : reload(t, w)

Spec == Init /\ [][Next]_vars

\* the plugin's own operations only: create_editor, on_load and on_unload
NextRegistry ==
    \/ \E t \in Threads, kind \in EditorKinds, path \in Paths :
           create_editor_call(t, kind, path)
    \/ \E t \in Threads : check_kind(t)
    \/ \E t \in Threads : resolve_path(t)
    \/ \E t \in Threads : construct(t)
    \/ \E t \in Threads : lock_counter(t)
    \/ \E t \in Threads : alloc_id(t)
    \/ \E t \in Threads : lock_map(t)
    \/ \E t \in Threads : insert_record(t)
    \/ \E t \in Threads : log_and_return(t)
    \/ on_load
    \/ \E t \in Threads : on_unload_call(t)
    \/ \E t \in Threads : on_unload_lock(t)
    \/ \E t \in Threads : on_unload_clear(t)

\* every operation of the plugin and of the instance handles
NextHandles ==
    \/ \E t \in Threads, kind \in EditorKinds, path \in Paths :
           create_editor_call(t, kind, path)
    \/ \E t \in Threads : check_kind(t)
    \/ \E t \in Threads : resolve_path(t)
    \/ \E t \in Threads : construct(t)
    \/ \E t \in Threads : lock_counter(t)
    \/ \E t \in Threads : alloc_id(t)
    \/ \E t \in Threads : lock_map(t)
    \/ \E t \in Threads : insert_record(t)
    \/ \E t \in Threads : log_and_return(t)
    \/ on_load
    \/ \E t \in Threads : on_unload_call(t)
    \/ \E t \in Threads : on_unload_lock(t)
    \/ \E t \in Threads : on_unload_clear(t)
    \/ \E t \in Threads, w \in handles : save(t, w)
    \/ \E t \in Threads, w \in handles : reload(t, w)
    \/ \E t \in Threads, w \in handles : file_path_call(t, w)
    \/ \E t \in Threads, w \in handles : is_dirty_call(t, w)

SpecHandles == Init /\ [][NextHandles]_vars

\* Scheduling: a thread that is inside create_editor or on_unload and can
\* take its next step is not held back for ever.
Step(t) ==
    \/ check_kind(t)
    \/ resolve_path(t)
    \/ construct(t)
    \/ lock_counter(t)
    \/ alloc_id(t)
    \/ lock_map(t)
    \/ insert_record(t)
    \/ log_and_return(t)
    \/ on_unload_lock(t)
    \/ on_unload_clear(t)

FairSpec ==
    Init /\ [][NextRegistry]_vars /\ \A t \in Threads : WF_vars(Step(t))

\* the plugin's operations, with the host dropping the handles it was given
NextOwn ==
    \/ \E t \in Threads, kind \in EditorKinds, path \in Paths :
           create_editor_call(t, kind, path)
    \/ \E t \in Threads : check_kind(t)
    \/ \E t \in Threads : resolve_path(t)
    \/ \E t \in Threads : construct(t)
    \/ \E t \in Threads : lock_counter(t)
    \/ \E t \in Threads : alloc_id(t)
    \/ \E t \in Threads : lock_map(t)
    \/ \E t \in Threads : insert_record(t)
    \/ \E t \in Threads : log_and_return(t)
    \/ on_load
    \/ \E t \in Threads : on_unload_call(t)
    \/ \E t \in Threads : on_unload_lock(t)
    \/ \E t \in Threads : on_unload_clear(t)
    \/ \E e \in panels : drop_panel(e)
    \/ \E w \in handles : drop_instance(w)

SpecOwn == Init /\ [][NextOwn]_vars

\* the same operations, with the user editing the open documents
NextEdit ==
    \/ NextHandles
    \/ \E e \in panels : edit(e)

SpecEdit == Init /\ [][NextEdit]_vars

TypeOK ==
    /\ next_editor_id \in 0..MaxIds
    /\ DOMAIN editors \subseteq 0..MaxIds
    /\ counter_lock \in Threads \cup {NoThread}
    /\ map_lock \in Threads \cup {NoThread}

\* ================================================================= claims
LastLine == log[Len(log)]
CreatedLines == {i \in 1..Len(log) : log[i].msg = "created"}
UnloadedLines == {i \in 1..Len(log) : log[i].msg = "unloaded"}
Holding == {t \in Threads : id[t] # NoId}
Size(m) == Cardinality(DOMAIN m)

\* C1: the ids allocated by concurrent create_editor calls are pairwise
\* distinct and form the contiguous range 0..N-1 of a fresh plugin's counter:
\* the ids held by calls in progress together with the ids of the calls that
\* have returned are all different and are exactly 0..next_editor_id-1.
C1_RaceFreeAllocation ==
    LET ids == {id[t] : t \in Holding} \cup {log[i].id : i \in CreatedLines}
    IN  /\ Cardinality(ids) = Cardinality(Holding) + Cardinality(CreatedLines)
        /\ ids = 0..(next_editor_id - 1)

\* two calls hold freshly allocated ids at the same time
C1_Witness ==
    \E t \in Threads, u \in Threads :
        /\ t # u
        /\ pc[t] \in {"lock_map", "insert", "log"}
        /\ pc[u] \in {"lock_map", "insert", "log"}
        /\ next_editor_id = 2

\* C2: file_path() of every instance handle returned by create_editor is the
\* resolved path, the path its entity was constructed with.
C2_FilePathIsResolvedPath ==
    \A w \in handles : wrapper_file_path(w) = entities[w.panel].path

\* C3: a create_editor call with a kind other than "enum-editor" returns
\* EditorNotFound carrying the requested identifier and leaves the map and
\* the counter unchanged.
C3_UnknownKindRejected ==
    [][\A t \in Threads :
          (pc[t] = "check_kind" /\ editor_id[t] # "enum-editor"
                                /\ pc'[t] # pc[t])
          => /\ pc'[t] = "idle"
             /\ result'.op = "create_editor"
             /\ result'.tag = "EditorNotFound"
             /\ result'.editor_id = editor_id[t]
             /\ editors' = editors
             /\ next_editor_id' = next_editor_id]_vars

\* a call was rejected while the registry holds a record
C3_Witness ==
    /\ result.tag = "EditorNotFound"
    /\ result.editor_id = "bogus-editor"
    /\ Size(editors) >= 1

\* C4: when on_unload completes the registry is empty and the count it
\* reports is the registry size immediately before the call.
C4_UnloadClearsAndCounts ==
    [][\A t \in Threads :
          (pc[t] = "unload_clear" /\ pc'[t] = "idle")
          => /\ Size(editors') = 0
             /\ Len(log') = Len(log) + 1
             /\ log'[Len(log')].msg = "unloaded"
             /\ log'[Len(log')].count = Size(editors)]_vars

\* an unload that removed two records
C4_Witness ==
    /\ Len(log) > 0
    /\ LastLine.msg = "unloaded"
    /\ LastLine.count = 2
    /\ Size(editors) = 0

\* the most recent unload, when no create_editor call has logged after it (the
\* only lines after it are those of on_load), or 0 when there is none
PreviousUnload ==
    LET S == {u \in UnloadedLines :
                 \A i \in (u + 1)..Len(log) : log[i].msg = "loaded"}
    IN  IF S = {} THEN 0 ELSE CHOOSE u \in S : TRUE

\* C5: on_unload called twice in succession (no create_editor call between the
\* two): the first call reports the prior size, the second reports 0 and
\* leaves the registry as the first left it, and neither fails.
C5_UnloadIdempotent ==
    [][\A t \in Threads :
          (pc[t] = "unload_clear" /\ pc'[t] = "idle")
          => /\ result' = [op |-> "on_unload", tag |-> "Ok"]
             /\ log'[Len(log')].count = Size(editors)
             /\ PreviousUnload # 0
                => /\ log'[Len(log')].count = 0
                   /\ editors' = editors
                   /\ next_editor_id' = next_editor_id]_vars

\* two unloads in succession, the first of which removed a record
C5_Witness ==
    /\ Len(log) >= 2
    /\ LastLine.msg = "unloaded"
    /\ LastLine.count = 0
    /\ \E u \in UnloadedLines :
           /\ u < Len(log)
           /\ log[u].count >= 1
           /\ \A i \in (u + 1)..(Len(log) - 1) : log[i].msg = "loaded"

\* C6: the counter never decreases, on_unload does not reset it, and an id
\* handed out after an unload is greater than every id handed out before it.
C6_IdsAfterUnloadAreGreater ==
    \A u \in UnloadedLines :
        \A i \in CreatedLines, j \in CreatedLines :
            (i < u /\ u < j) => log[i].id < log[j].id

C6_IdsNeverReused ==
    /\ [][next_editor_id' >= next_editor_id]_vars
    /\ [][\A t \in Threads :
             (pc[t] = "unload_clear" /\ pc'[t] = "idle")
             => next_editor_id' = next_editor_id]_vars
    /\ []C6_IdsAfterUnloadAreGreater

\* a record created, an unload, and a record created after it
C6_Witness ==
    \E u \in UnloadedLines :
        \E i \in CreatedLines, j \in CreatedLines : i < u /\ u < j

\* C7: allocating an id and registering its record are one atomic step: while
\* a call holds an allocated id that it has not registered yet, no other call
\* changes the counter or the map.
C7_AllocateAndRegisterAtomic ==
    [][\A t \in Threads :
          (pc[t] \in {"lock_map", "insert"} /\ pc'[t] = pc[t])
          => (editors' = editors /\ next_editor_id' = next_editor_id)]_vars

\* C8: a successful create_editor call allocates exactly one id, inserts
\* exactly one record under it before returning, the record refers to the
\* same entity as the returned pair, and the registry grows by one.
C8_OneIdOneRecord ==
    [][\A t \in Threads :
          /\ (pc[t] = "alloc" /\ pc'[t] # pc[t])
             => /\ next_editor_id' = next_editor_id + 1
                /\ id'[t] = next_editor_id
                /\ editors' = editors
          /\ (pc[t] = "insert" /\ pc'[t] # pc[t])
             => /\ Size(editors') = Size(editors) + 1
                /\ DOMAIN editors' = DOMAIN editors \cup {id[t]}
                /\ next_editor_id' = next_editor_id
          /\ (pc[t] = "log" /\ pc'[t] # pc[t])
             => /\ result'.tag = "Ok"
                /\ id[t] \in DOMAIN editors'
                /\ editors'[id[t]].panel = result'.panel
                /\ editors'[id[t]].wrapper = result'.wrapper
                /\ result'.wrapper.panel = result'.panel
                /\ result'.panel # NoEntity
                /\ \A k \in DOMAIN editors' :
                       editors'[k].panel = result'.panel => k = id[t]
                /\ UNCHANGED registry]_vars

\* two calls have returned and the registry holds both records
C8_Witness ==
    /\ Size(editors) = 2
    /\ \A t \in Threads : pc[t] = "idle"
    /\ result.tag = "Ok"
    /\ \E k \in DOMAIN editors : editors[k].panel = result.panel

\* C9: save and reload on an instance handle leave the map and the counter
\* unchanged, whether the entity's operation succeeds or fails, and return
\* the entity's result unchanged.
C9_SaveReloadLeaveRegistry ==
    [][(result' # result /\ result'.op \in {"save", "reload"})
       => /\ editors' = editors
          /\ next_editor_id' = next_editor_id
          /\ result'.tag =
                 IF result'.op = "save"
                 THEN plugin_save(entities[result'.panel])
                 ELSE plugin_reload(entities[result'.panel])]_vars

\* a failed save on an instance that is still registered
C9_Witness ==
    /\ result.op = "save"
    /\ result.tag = "SaveFailed"
    /\ \E k \in DOMAIN editors : editors[k].panel = result.panel

\* C10: when entity construction fails, create_editor returns an error and
\* registers nothing: no successful result and no record refers to an entity
\* whose document could not be read.
C10_FailedConstructionRejected ==
    /\ (result.op = "create_editor" /\ result.tag = "Ok")
       => entities[result.panel].loaded
    /\ \A k \in DOMAIN editors : entities[editors[k].panel].loaded

\* C11: is_dirty() on an instance handle reports whether the wrapped entity
\* has changes made since its last successful save or reload.
C11_IsDirtyReportsUnsavedChanges ==
    [][\A t \in Threads : \A w \in handles :
          is_dirty_call(t, w) => result'.value = entities[w.panel].dirty]_vars

\* C12: the insert is never performed with an id that is already a key of the
\* map: no record is overwritten, every record present before the insert is
\* there, unchanged, after it.
C12_InsertNeverOverwrites ==
    [][\A t \in Threads :
          (pc[t] = "insert" /\ pc'[t] # pc[t])
          => /\ id[t] \notin DOMAIN editors
             /\ \A k \in DOMAIN editors :
                    k \in DOMAIN editors' /\ editors'[k] = editors[k]]_vars

\* a record has just been inserted into a map that already held one
C12_Witness ==
    \E t \in Threads : pc[t] = "log" /\ Size(editors) = 2

\* C13: a record, once inserted, stays in the map under its id and unchanged
\* until an on_unload call removes it; no other call removes or replaces it.
C13_RecordsStayUntilUnload ==
    [][\A k \in DOMAIN editors :
          \/ k \in DOMAIN editors' /\ editors'[k] = editors[k]
          \/ \E t \in Threads : pc[t] = "unload_clear" /\ pc'[t] = "idle"]_vars

\* a reload has failed on an instance whose record is still in the map
C13_Witness ==
    /\ result.op = "reload"
    /\ result.tag = "ReloadFailed"
    /\ \E k \in DOMAIN editors : editors[k].panel = result.panel

\* C17: every key of the map is below next_editor_id, the map is no larger
\* than the counter, and the counter is the number of create_editor calls
\* that have completed their allocation.
C17_KeysBelowCounter ==
    /\ \A k \in DOMAIN editors : k >= 0 /\ k < next_editor_id
    /\ Size(editors) <= next_editor_id
    /\ next_editor_id = Cardinality(Holding) + Cardinality(CreatedLines)

\* after an unload and a further call: one record, two ids allocated
C17_Witness ==
    /\ next_editor_id = 2
    /\ DOMAIN editors = {1}
    /\ UnloadedLines # {}

\* C18: two successful create_editor calls for the same path with no
\* on_unload in between give two records under two ids, and the insert of
\* the second leaves the record of the first as it was.
C18_SamePathRecords ==
    \A i \in CreatedLines, j \in CreatedLines :
        (i < j /\ log[i].file_path = log[j].file_path
               /\ \A u \in UnloadedLines : u < i)
        => /\ log[i].id # log[j].id
           /\ {log[i].id, log[j].id} \subseteq DOMAIN editors
           /\ editors[log[i].id].wrapper.file_path = log[i].file_path
           /\ editors[log[j].id].wrapper.file_path = log[j].file_path
           /\ editors[log[i].id].panel # editors[log[j].id].panel

C18_NoDeduplicationByPath ==
    /\ []C18_SamePathRecords
    /\ [][\A t \in Threads :
             (pc[t] = "insert" /\ pc'[t] # pc[t])
             => /\ Size(editors') = Size(editors) + 1
                /\ \A k \in DOMAIN editors :
                       editors[k].wrapper.file_path = file_path[t]
                       => /\ k # id[t]
                          /\ k \in DOMAIN editors'
                          /\ editors'[k] = editors[k]]_vars

\* two records for the same path
C18_Witness ==
    \E k \in DOMAIN editors, l \in DOMAIN editors :
        /\ k # l
        /\ editors[k].wrapper.file_path = editors[l].wrapper.file_path
        /\ \A t \in Threads : pc[t] = "idle"

\* C14: a thread holds the counter lock only for its one increment and the
\* map lock only for its one insert or its len and clear; it holds neither
\* while it resolves the path, constructs the entity, saves or reloads, and
\* never both at once.
C14_LockPositions ==
    \A t \in Threads :
        /\ counter_lock = t => pc[t] = "alloc"
        /\ map_lock = t => pc[t] \in {"insert", "unload_clear"}
        /\ ~(counter_lock = t /\ map_lock = t)
        /\ pc[t] \in {"idle", "check_kind", "resolve", "construct"}
           => (counter_lock # t /\ map_lock # t)

C14_LockDiscipline ==
    /\ []C14_LockPositions
    /\ [][\A t \in Threads :
             /\ (counter_lock = t /\ pc'[t] # pc[t])
                => /\ counter_lock' = NoThread
                   /\ next_editor_id' = next_editor_id + 1
             /\ (map_lock = t /\ pc'[t] # pc[t])
                => /\ map_lock' = NoThread
                   /\ \/ Size(editors') = Size(editors) + 1
                      \/ Size(editors') = 0]_vars

\* one thread is in the counter's critical section and another in the map's
C14_Witness ==
    \E t \in Threads, u \in Threads :
        t # u /\ counter_lock = t /\ map_lock = u

\* C15: under fair scheduling every create_editor call and every on_unload
\* call that has started returns; no call waits for ever on a lock.
C15_CallsComplete ==
    \A t \in Threads : (pc[t] # "idle") ~> (pc[t] = "idle")

\* a call waits for the counter lock that another call holds
C15_Witness ==
    \E t \in Threads, u \in Threads :
        t # u /\ pc[t] = "lock_counter" /\ counter_lock = u

\* C16: an entity is alive exactly as long as something still refers to it:
\* a call in progress, its record in the map, or a display or instance
\* handle held by the host.  It outlives the host's handles while its record
\* is in the map, outlives the record while the host holds a handle, and is
\* destroyed once all of them are gone.
Registered(e) == \E k \in DOMAIN editors : editors[k].panel = e
HostHolds(e) == e \in panels \/ \E w \in handles : w.panel = e
InCall(e) == \E t \in Threads : panel[t] = e

C16_SharedOwnership ==
    \A e \in DOMAIN entities :
        Alive(entities[e]) <=> (Registered(e) \/ HostHolds(e) \/ InCall(e))

\* the host has dropped both handles and the registered entity is alive;
\* another entity has lost its record and lives on through a host handle
C16_Witness ==
    \E e \in DOMAIN entities, f \in DOMAIN entities :
        /\ Registered(e) /\ ~HostHolds(e) /\ ~InCall(e) /\ Alive(entities[e])
        /\ ~Registered(f) /\ HostHolds(f) /\ f \notin panels
        /\ Alive(entities[f])

====
